---- MODULE Spec2Model ----
(***************************************************************************)
(* Iron Claw gateway: the HITL rendezvous (services/hitl_service.py) and   *)
(* the OpenClaw webhook task queue (services/openclaw_service.py).         *)
(*                                                                         *)
(* Both services run on one asyncio event loop.  A coroutine runs without  *)
(* interruption from one suspension point to the next, so every action     *)
(* below is the code between two suspension points.  Acquiring an          *)
(* asyncio.Lock that nobody holds does not suspend, and no lock body in    *)
(* either service contains an await, so the locks are never contended and  *)
(* `async with self._lock` is not a suspension point.                      *)
(***************************************************************************)
EXTENDS Integers, Sequences, FiniteSets, TLC

\* ------------------------------------------------------------------ bounds
MaxRequests == 1      \* request_hitl calls in one run
MaxTime == 2          \* the clock stops ticking here (seconds)
MaxCallbacks == 1     \* registered notification callbacks
MaxTasks == 1         \* accepted execute-step requests in one run
MaxProcessors == 2    \* registered task processors
MaxSubmissions == 2   \* accepted execute-step requests in a run of SubmitSpec
MaxPending == 2       \* request_hitl calls in a run of PendingSpec
MaxNotifiers == 2     \* registered notification callbacks in a run of NotifySpec

\* Timestamps enter the model only through the clock `now`, the waiter's deadline
\* and its wake-up time; the created_at, expires_at and resolved_at fields, the
\* message, the screenshot and the options of a request are never read by the
\* code below and are left out of the records.

\* Python's None
None == "None"

\* request_hitl inputs: the task id is stored and never read by the rendezvous;
\* a timeout of 1 expires at the first wake-up, a timeout of 2 leaves one poll
HitlTaskIds == {"t1"}
Timeouts == {1, 2}
UserActions == {"Retry", "I solved it"}
CallbackKinds == {"ok", "raises"}

\* asyncio.sleep(poll_interval) in _wait_for_response
poll_interval == 1

VARIABLES
    now,                     \* datetime.now(), in seconds
    hitl_requests,           \* _hitl_requests: request_id -> request dict
    hitl_responses,          \* _hitl_responses: request_id -> response dict
    notification_callbacks,  \* _notification_callbacks
    waiter,                  \* the request_hitl coroutine of each request
    delivered,               \* history: what each request_hitl call handed to its caller
    accepted,                \* history: the first response for which respond_hitl returned True
    cancelled_blocked,       \* history: requests cancelled while pending, before the deadline,
                             \*          with the waiter blocked in _wait_for_response
    last_op,                 \* the last respond_hitl / cancel_request call and what it returned
    task_queue,              \* _task_queue: run_id -> TaskInfo
    task_processors,         \* _task_processors
    background,              \* the _process_task coroutine of each run
    invoked,                 \* history: the processors each run has called, in order
    response                 \* the WebhookResponse of the last webhook call

hitlVars == <<hitl_requests, hitl_responses, notification_callbacks, waiter,
              delivered, accepted, cancelled_blocked, last_op>>
taskVars == <<task_queue, task_processors, background, invoked, response>>
vars == <<now, hitlVars, taskVars>>

\* the request ids a caller may name: the stored ones and one that is unknown
RequestIds == 1..(Cardinality(DOMAIN hitl_requests) + 1)

\* ------------------------------------------------------------ HITLService

\* f without key k (dict.pop)
Pop(f, k) == [x \in DOMAIN f \ {k} |-> f[x]]

\* f with key k bound to v (dict[k] = v)
Put(f, k, v) == [x \in DOMAIN f \cup {k} |-> IF x = k THEN v ELSE f[x]]

\* no response recorded (history only)
NoResponse == [kind |-> "none", action |-> None, custom_input |-> None]

TimeoutOutcome == [kind |-> "HITLTimeoutError", action |-> None, custom_input |-> None]

\* WaitLoop with the status update of the response branch lost
WaitLoop_NoResolve(rid, reqs, resps, dl, t) ==
    IF t < dl
    THEN IF rid \in DOMAIN resps
         THEN [pc |-> "returned", reqs |-> reqs, resps |-> Pop(resps, rid),
               out |-> <<resps[rid]>>]
         ELSE [pc |-> "sleep", reqs |-> reqs, resps |-> resps, out |-> <<>>]
    ELSE [pc |-> "raised",
          reqs |-> IF rid \in DOMAIN reqs
                   THEN [reqs EXCEPT ![rid].status = "expired"] ELSE reqs,
          resps |-> resps,
          out |-> <<TimeoutOutcome>>]

\* WaitLoop with the deadline never looked at (while True)
WaitLoop_NoDeadline(rid, reqs, resps, dl, t) ==
    IF rid \in DOMAIN resps
    THEN [pc |-> "returned",
          reqs |-> IF rid \in DOMAIN reqs
                   THEN [reqs EXCEPT ![rid].status = "resolved"] ELSE reqs,
          resps |-> Pop(resps, rid),
          out |-> <<resps[rid]>>]
    ELSE [pc |-> "sleep", reqs |-> reqs, resps |-> resps, out |-> <<>>]

\* _wait_for_response from the head of its while loop up to the next suspension
\* (asyncio.sleep), the return or the raise, at time t with deadline dl.
WaitLoop(rid, reqs, resps, dl, t) ==
    IF t < dl
    THEN IF rid \in DOMAIN resps
         THEN [pc |-> "returned",
               reqs |-> IF rid \in DOMAIN reqs
                        THEN [reqs EXCEPT ![rid].status = "resolved"] ELSE reqs,
               resps |-> Pop(resps, rid),
               out |-> <<resps[rid]>>]
         ELSE [pc |-> "sleep", reqs |-> reqs, resps |-> resps, out |-> <<>>]
    ELSE [pc |-> "raised",
          reqs |-> IF rid \in DOMAIN reqs
                   THEN [reqs EXCEPT ![rid].status = "expired"] ELSE reqs,
          resps |-> resps,
          out |-> <<TimeoutOutcome>>]

\* the coroutine's locals inside _wait_for_response; a finished coroutine has none
Waiting(pc, dl, wake) ==
    IF pc = "sleep"
    THEN [pc |-> pc, deadline |-> dl, wake_at |-> wake, idx |-> 0, timeout |-> 0]
    ELSE [pc |-> pc, deadline |-> 0, wake_at |-> 0, idx |-> 0, timeout |-> 0]

\* request_hitl once every callback has been awaited: _wait_for_response is
\* entered, the deadline is computed and the loop runs up to its first suspension.
EnterWait(rid, reqs, timeout) ==
    LET dl == now + timeout
        w == WaitLoop(rid, reqs, hitl_responses, dl, now)
    IN  /\ hitl_requests' = w.reqs
        /\ hitl_responses' = w.resps
        /\ waiter' = Put(waiter, rid, Waiting(w.pc, dl, now + poll_interval))
        /\ delivered' = Put(delivered, rid, w.out)

\* register_callback
RegisterCallback(kind) ==
    /\ notification_callbacks' = Append(notification_callbacks, kind)
    /\ UNCHANGED <<now, hitl_requests, hitl_responses, waiter, delivered, accepted,
                   cancelled_blocked, last_op, taskVars>>

\* request_hitl up to its first suspension: the request is stored as pending and
\* either the first callback is awaited or, with no callback, the wait begins.
RequestHitl(task_id, timeout) ==
    LET rid == Cardinality(DOMAIN hitl_requests) + 1
        request == [request_id |-> rid, task_id |-> task_id, status |-> "pending"]
        reqs == Put(hitl_requests, rid, request)
    IN  /\ IF notification_callbacks = <<>>
           THEN EnterWait(rid, reqs, timeout)
           ELSE /\ hitl_requests' = reqs
                /\ waiter' = Put(waiter, rid, [pc |-> "notify", deadline |-> 0, wake_at |-> 0,
                                              idx |-> 1, timeout |-> timeout])
                /\ delivered' = Put(delivered, rid, <<>>)
                /\ UNCHANGED hitl_responses
        /\ accepted' = Put(accepted, rid, NoResponse)
        /\ UNCHANGED <<now, notification_callbacks, cancelled_blocked, last_op, taskVars>>

\* CallbackCall without the try/except: the exception leaves the for loop
CallbackCall_Escapes(kind) == [escapes |-> kind = "raises"]

\* the try/except around one callback: whether its exception leaves the for loop
CallbackCall(kind) == [escapes |-> FALSE]

\* what request_hitl would hand its caller if a callback's exception left it
CallbackError == [kind |-> "callback error", action |-> None, custom_input |-> None]

\* the awaited callback returns or raises (the exception is logged and swallowed);
\* the for loop goes on to the next callback of the (live) list or to
\* _wait_for_response.
CallbackDone(rid) ==
    /\ rid \in DOMAIN waiter
    /\ waiter[rid].pc = "notify"
    /\ IF CallbackCall(notification_callbacks[waiter[rid].idx]).escapes
       THEN /\ waiter' = [waiter EXCEPT ![rid] = Waiting("aborted", 0, 0)]
            /\ delivered' = [delivered EXCEPT ![rid] = <<CallbackError>>]
            /\ UNCHANGED <<hitl_requests, hitl_responses>>
       ELSE IF waiter[rid].idx < Len(notification_callbacks)
       THEN /\ waiter' = [waiter EXCEPT ![rid].idx = @ + 1]
            /\ UNCHANGED <<hitl_requests, hitl_responses, delivered>>
       ELSE EnterWait(rid, hitl_requests, waiter[rid].timeout)
    /\ UNCHANGED <<now, notification_callbacks, accepted, cancelled_blocked, last_op,
                   taskVars>>

\* asyncio.sleep(poll_interval) is over: the loop condition is evaluated again.
Poll(rid) ==
    /\ rid \in DOMAIN waiter
    /\ waiter[rid].pc = "sleep"
    /\ now >= waiter[rid].wake_at
    /\ LET w == WaitLoop(rid, hitl_requests, hitl_responses, waiter[rid].deadline, now)
       IN  /\ hitl_requests' = w.reqs
           /\ hitl_responses' = w.resps
           /\ waiter' = [waiter EXCEPT ![rid] = Waiting(w.pc, @.deadline, now + poll_interval)]
           /\ delivered' = [delivered EXCEPT ![rid] = @ \o w.out]
    /\ UNCHANGED <<now, notification_callbacks, accepted, cancelled_blocked, last_op,
                   taskVars>>

\* RespondHitlResult without the test of the stored status
RespondHitlResult_NoStatusCheck(rid, action, custom_input, reqs, resps) ==
    IF rid \notin DOMAIN reqs
    THEN [ret |-> FALSE, resps |-> resps]
    ELSE [ret |-> TRUE,
          resps |-> Put(resps, rid, [kind |-> "response", action |-> action,
                                     custom_input |-> custom_input])]

\* respond_hitl: the value returned and the tables it leaves.
RespondHitlResult(rid, action, custom_input, reqs, resps) ==
    IF rid \notin DOMAIN reqs
    THEN [ret |-> FALSE, resps |-> resps]
    ELSE IF reqs[rid].status # "pending"
    THEN [ret |-> FALSE, resps |-> resps]
    ELSE [ret |-> TRUE,
          resps |-> Put(resps, rid, [kind |-> "response", action |-> action,
                                     custom_input |-> custom_input])]

RespondHitl(rid, action, custom_input) ==
    LET r == RespondHitlResult(rid, action, custom_input, hitl_requests, hitl_responses)
    IN  /\ hitl_responses' = r.resps
        /\ accepted' = IF r.ret /\ accepted[rid] = NoResponse
                       THEN [accepted EXCEPT ![rid] = r.resps[rid]]
                       ELSE accepted
        /\ last_op' = [op |-> "respond_hitl", rid |-> rid, ret |-> r.ret]
        /\ UNCHANGED <<now, hitl_requests, notification_callbacks, waiter, delivered,
                       cancelled_blocked, taskVars>>

\* the response cancel_request synthesizes
AbortResponse == [kind |-> "response", action |-> "Abort",
                     custom_input |-> "Cancelled by user"]

\* CancelRequestResult with the Abort response stored for every request
CancelRequestResult_Broadcast(rid, reqs, resps) ==
    IF rid \notin DOMAIN reqs
    THEN [ret |-> FALSE, reqs |-> reqs, resps |-> resps]
    ELSE [ret |-> TRUE,
          reqs |-> [reqs EXCEPT ![rid].status = "cancelled"],
          resps |-> [r \in DOMAIN reqs |-> AbortResponse]]

\* cancel_request: the value returned and the tables it leaves.
CancelRequestResult(rid, reqs, resps) ==
    IF rid \notin DOMAIN reqs
    THEN [ret |-> FALSE, reqs |-> reqs, resps |-> resps]
    ELSE [ret |-> TRUE,
          reqs |-> [reqs EXCEPT ![rid].status = "cancelled"],
          resps |-> Put(resps, rid, AbortResponse)]

CancelRequest(rid) ==
    LET r == CancelRequestResult(rid, hitl_requests, hitl_responses)
    IN  /\ hitl_requests' = r.reqs
        /\ hitl_responses' = r.resps
        /\ last_op' = [op |-> "cancel_request", rid |-> rid, ret |-> r.ret]
        /\ cancelled_blocked' =
               IF /\ rid \in DOMAIN hitl_requests
                  /\ hitl_requests[rid].status = "pending"
                  /\ waiter[rid].pc = "sleep"
                  /\ now < waiter[rid].deadline
               THEN cancelled_blocked \cup {rid} ELSE cancelled_blocked
        /\ UNCHANGED <<now, notification_callbacks, waiter, delivered, accepted, taskVars>>

\* PendingFrom with the task_id argument never looked at
RECURSIVE PendingFrom_NoFilter(_, _, _)
PendingFrom_NoFilter(reqs, task_id, i) ==
    IF i \notin DOMAIN reqs THEN <<>>
    ELSE (IF reqs[i].status = "pending" THEN <<reqs[i]>> ELSE <<>>)
             \o PendingFrom_NoFilter(reqs, task_id, i + 1)

\* get_pending_requests: the pending requests in dict (insertion) order.
RECURSIVE PendingFrom(_, _, _)
PendingFrom(reqs, task_id, i) ==
    IF i \notin DOMAIN reqs THEN <<>>
    ELSE (IF reqs[i].status = "pending" /\ (task_id = None \/ reqs[i].task_id = task_id)
          THEN <<reqs[i]>> ELSE <<>>) \o PendingFrom(reqs, task_id, i + 1)

GetPendingRequests(task_id) == PendingFrom(hitl_requests, task_id, 1)

\* get_request
GetRequest(rid) == IF rid \in DOMAIN hitl_requests THEN hitl_requests[rid] ELSE None

\* the clock
Tick ==
    /\ now < MaxTime
    /\ now' = now + 1
    /\ UNCHANGED <<hitlVars, taskVars>>

\* the clock of a run that is watched to its end: it does not stop while a
\* request_hitl call sleeps ahead of its deadline
TickLive ==
    /\ \/ now < MaxTime
       \/ \E r \in DOMAIN waiter : waiter[r].pc = "sleep" /\ now < waiter[r].deadline
    /\ now' = now + 1
    /\ UNCHANGED <<hitlVars, taskVars>>

\* ------------------------------------------------------- OpenClawService

\* Strings that the code takes apart are sequences of characters.
BearerPrefix == <<"B", "e", "a", "r", "e", "r", " ">>
hook_token == <<"s", "3">>

\* Optional[str]: None, or a string
NoHeader == [present |-> FALSE, text |-> <<>>]
Header(text) == [present |-> TRUE, text |-> text]

\* str.startswith
StartsWith(str, prefix) ==
    Len(str) >= Len(prefix) /\ SubSeq(str, 1, Len(prefix)) = prefix

\* str.split(" ", 1)[1], for a string that holds a space: what follows the first one
AfterFirstSpace(str) ==
    LET i == CHOOSE k \in 1..Len(str) : str[k] = " " /\ \A j \in 1..(k - 1) : str[j] # " "
    IN  SubSeq(str, i + 1, Len(str))

\* ValidateToken with the token after the prefix never compared
ValidateToken_PrefixOnly(authorization) ==
    IF ~authorization.present \/ authorization.text = <<>> THEN FALSE
    ELSE StartsWith(authorization.text, BearerPrefix)

\* ValidateToken with the prefix never tested: what follows the first space is
\* compared whatever stands before it
ValidateToken_AnyScheme(authorization) ==
    IF ~authorization.present \/ authorization.text = <<>> THEN FALSE
    ELSE IF \A k \in 1..Len(authorization.text) : authorization.text[k] # " " THEN FALSE
    ELSE AfterFirstSpace(authorization.text) = hook_token

\* validate_token
ValidateToken(authorization) ==
    IF ~authorization.present \/ authorization.text = <<>> THEN FALSE
    ELSE IF ~StartsWith(authorization.text, BearerPrefix) THEN FALSE
    ELSE AfterFirstSpace(authorization.text) = hook_token

AuthHeaders == {NoHeader, Header(BearerPrefix \o hook_token), Header(BearerPrefix \o <<"x">>)}

\* more Authorization headers: the empty string, the bare token, a lower-case
\* scheme, two spaces after the scheme, the token with a character too many, the
\* scheme alone with and without its space, and a space before the scheme
AllAuthHeaders ==
    AuthHeaders \cup {Header(<<>>),
                      Header(hook_token),
                      Header(<<"b", "e", "a", "r", "e", "r", " ">> \o hook_token),
                      Header(BearerPrefix \o <<" ">> \o hook_token),
                      Header(BearerPrefix \o hook_token \o <<"x">>),
                      Header(<<"B", "e", "a", "r", "e", "r">>),
                      Header(BearerPrefix),
                      Header(<<" ">> \o BearerPrefix \o hook_token)}

TaskIds == {10, 11}
StepTypes == {"log", "script"}
RequestTypes == {"execute-step", "query-status", "cancel-task", "restart-task"}
ProcessorKinds == {"returns", "raises"}

\* TaskInfo.result: None, the {} of _process_task, a processor's dict (named by the
\* position of the processor), {"error": str(e)}, or a dict of _default_processor
NoResult == [kind |-> "None", by |-> 0]
EmptyResult == [kind |-> "{}", by |-> 0]

\* WebhookResponse; runId 0 is None; error is <<>> for None and otherwise the
\* words of the text, the status or the type it names last (the ids inside the
\* texts are left out)
WebhookResponse(ok, runId, status, message, error) ==
    [ok |-> ok, runId |-> runId, status |-> status, message |-> message, error |-> error]
NoWebhookResponse == WebhookResponse(FALSE, 0, None, "no call yet", <<>>)

ActiveStatus == {"pending", "queued", "running"}
TerminalTaskStatus == {"completed", "failed", "cancelled"}

\* register_processor
RegisterProcessor(kind) ==
    /\ task_processors' = Append(task_processors, kind)
    /\ UNCHANGED <<now, hitlVars, task_queue, background, invoked, response>>

\* HandleExecuteStep with the record stored under the caller's task id
HandleExecuteStep_KeyedByTask(request) ==
    LET run_id == request.taskId
        task_info == [run_id |-> run_id, task_id |-> request.taskId, status |-> "queued",
                      created_at |-> now, updated_at |-> now,
                      step_type |-> request.stepType, result |-> NoResult, error |-> None]
    IN  /\ task_queue' = Put(task_queue, run_id, task_info)
        /\ background' = Put(background, run_id,
                             [pc |-> "scheduled", idx |-> 0, result |-> NoResult])
        /\ invoked' = Put(invoked, run_id, <<>>)
        /\ response' = WebhookResponse(TRUE, run_id, "queued", "Task queued for execution", <<>>)
        /\ UNCHANGED task_processors

\* _handle_execute_step: the record is stored as queued and _process_task is
\* scheduled with asyncio.create_task; it has not run yet when the call returns.
HandleExecuteStep(request) ==
    LET run_id == Cardinality(DOMAIN task_queue) + 1
        task_info == [run_id |-> run_id, task_id |-> request.taskId, status |-> "queued",
                      created_at |-> now, updated_at |-> now,
                      step_type |-> request.stepType, result |-> NoResult, error |-> None]
    IN  /\ task_queue' = Put(task_queue, run_id, task_info)
        /\ background' = Put(background, run_id,
                             [pc |-> "scheduled", idx |-> 0, result |-> NoResult])
        /\ invoked' = Put(invoked, run_id, <<>>)
        /\ response' = WebhookResponse(TRUE, run_id, "queued", "Task queued for execution", <<>>)
        /\ UNCHANGED task_processors

\* extra.get("runId") or request.taskId
LookupKey(request) == IF request.runId # 0 THEN request.runId ELSE request.taskId

\* FindTask with the search going on to the last record that matches
FindTask_LastMatch(queue, key) ==
    LET matches == {r \in DOMAIN queue : queue[r].run_id = key \/ queue[r].task_id = key}
    IN  IF matches = {} THEN 0
        ELSE CHOOSE r \in matches : \A q \in matches : r >= q

\* the first record, in dict order, whose run_id or task_id is the key; 0 if none
FindTask(queue, key) ==
    LET matches == {r \in DOMAIN queue : queue[r].run_id = key \/ queue[r].task_id = key}
    IN  IF matches = {} THEN 0
        ELSE CHOOSE r \in matches : \A q \in matches : r <= q

\* _handle_query_status
HandleQueryStatus(request) ==
    LET found == FindTask(task_queue, LookupKey(request))
    IN  /\ response' =
               IF found = 0
               THEN WebhookResponse(FALSE, 0, None, None, <<"Task", "not", "found:">>)
               ELSE WebhookResponse(TRUE, task_queue[found].run_id, task_queue[found].status,
                                    IF task_queue[found].status = "failed"
                                    THEN task_queue[found].error ELSE None,
                                    <<>>)
        /\ UNCHANGED <<task_queue, task_processors, background, invoked>>

\* CancelTaskResult without the test of the status: a record in any status is
\* cancelled
CancelTaskResult_AnyStatus(queue, key, t) ==
    LET found == FindTask(queue, key)
    IN  IF found = 0
        THEN [queue |-> queue,
              response |-> WebhookResponse(FALSE, 0, None, None, <<"Task", "not", "found:">>)]
        ELSE [queue |-> [queue EXCEPT ![found].status = "cancelled",
                                      ![found].updated_at = t],
              response |-> WebhookResponse(TRUE, found, "cancelled", "Task cancelled", <<>>)]

\* CancelTaskResult with the record stamped before its status is looked at
CancelTaskResult_StampsFirst(queue, key, t) ==
    LET found == FindTask(queue, key)
    IN  IF found = 0
        THEN [queue |-> queue,
              response |-> WebhookResponse(FALSE, 0, None, None, <<"Task", "not", "found:">>)]
        ELSE IF queue[found].status \in ActiveStatus
        THEN [queue |-> [queue EXCEPT ![found].status = "cancelled",
                                      ![found].updated_at = t],
              response |-> WebhookResponse(TRUE, found, "cancelled", "Task cancelled", <<>>)]
        ELSE [queue |-> [queue EXCEPT ![found].updated_at = t],
              response |-> WebhookResponse(FALSE, found, None, None,
                                           <<"Cannot", "cancel", "task", "in", "status:",
                                             queue[found].status>>)]

\* _handle_cancel_task: the queue it leaves and the response it returns at time t
CancelTaskResult(queue, key, t) ==
    LET found == FindTask(queue, key)
    IN  IF found = 0
        THEN [queue |-> queue,
              response |-> WebhookResponse(FALSE, 0, None, None, <<"Task", "not", "found:">>)]
        ELSE IF queue[found].status \in ActiveStatus
        THEN [queue |-> [queue EXCEPT ![found].status = "cancelled",
                                      ![found].updated_at = t],
              response |-> WebhookResponse(TRUE, found, "cancelled", "Task cancelled", <<>>)]
        ELSE [queue |-> queue,
              response |-> WebhookResponse(FALSE, found, None, None,
                                           <<"Cannot", "cancel", "task", "in", "status:",
                                             queue[found].status>>)]

HandleCancelTask(request) ==
    LET r == CancelTaskResult(task_queue, LookupKey(request), now)
    IN  /\ task_queue' = r.queue
        /\ response' = r.response
        /\ UNCHANGED <<task_processors, background, invoked>>

\* an execute-step request that passes validate_token: the only kind of call
\* that adds a record
Accepted(request, authorization) ==
    request.type = "execute-step" /\ ValidateToken(authorization)

\* HandleWebhook with cancel-task as the last branch of the routing, taken by
\* every type that is neither execute-step nor query-status
HandleWebhook_CancelIsDefault(request, authorization) ==
    /\ IF ~ValidateToken(authorization)
       THEN /\ response' = WebhookResponse(FALSE, 0, None, None,
                                           <<"Invalid", "or", "missing", "authorization",
                                             "token">>)
            /\ UNCHANGED <<task_queue, task_processors, background, invoked>>
       ELSE IF request.type = "execute-step" THEN HandleExecuteStep(request)
       ELSE IF request.type = "query-status" THEN HandleQueryStatus(request)
       ELSE HandleCancelTask(request)
    /\ UNCHANGED <<now, hitlVars>>

\* handle_webhook
HandleWebhook(request, authorization) ==
    /\ IF ~ValidateToken(authorization)
       THEN /\ response' = WebhookResponse(FALSE, 0, None, None,
                                           <<"Invalid", "or", "missing", "authorization",
                                             "token">>)
            /\ UNCHANGED <<task_queue, task_processors, background, invoked>>
       ELSE IF request.type = "execute-step" THEN HandleExecuteStep(request)
       ELSE IF request.type = "query-status" THEN HandleQueryStatus(request)
       ELSE IF request.type = "cancel-task" THEN HandleCancelTask(request)
       ELSE /\ response' = WebhookResponse(FALSE, 0, None, None,
                                           <<"Unknown", "request", "type:", request.type>>)
            /\ UNCHANGED <<task_queue, task_processors, background, invoked>>
    /\ UNCHANGED <<now, hitlVars>>

\* the status writes of _process_task, each made under the lock at time t
MarkRunning(info, t) == [info EXCEPT !.status = "running", !.updated_at = t]
MarkCompleted_KeepsStatus(info, result, t) ==
    [info EXCEPT !.result = result, !.updated_at = t]
MarkCompleted(info, result, t) ==
    [info EXCEPT !.status = "completed", !.result = result, !.updated_at = t]
MarkFailed(info, message, t) ==
    [info EXCEPT !.status = "failed", !.error = message, !.updated_at = t]

\* StartTask for a coroutine that the event loop may start again after it has
\* been started
StartTask_Again(run) ==
    /\ run \in DOMAIN background
    /\ background[run].pc \in {"scheduled", "processor", "default"}
    /\ task_queue' = [task_queue EXCEPT ![run] = MarkRunning(@, now)]
    /\ IF task_processors # <<>>
       THEN /\ background' = [background EXCEPT ![run] =
                                 [pc |-> "processor", idx |-> 1, result |-> EmptyResult]]
            /\ invoked' = [invoked EXCEPT ![run] = Append(@, 1)]
       ELSE /\ background' = [background EXCEPT ![run] =
                                 [pc |-> "default", idx |-> 0, result |-> EmptyResult]]
            /\ invoked' = [invoked EXCEPT ![run] = Append(@, 0)]
    /\ UNCHANGED <<now, hitlVars, task_processors, response>>

\* _process_task from its start to its first suspension: the record is marked
\* running and the first registered processor, or with none registered the default
\* processor, is called and awaited.  invoked names the default processor 0.
StartTask(run) ==
    /\ run \in DOMAIN background
    /\ background[run].pc = "scheduled"
    /\ task_queue' = [task_queue EXCEPT ![run] = MarkRunning(@, now)]
    /\ IF task_processors # <<>>
       THEN /\ background' = [background EXCEPT ![run] =
                                 [pc |-> "processor", idx |-> 1, result |-> EmptyResult]]
            /\ invoked' = [invoked EXCEPT ![run] = Append(@, 1)]
       ELSE /\ background' = [background EXCEPT ![run] =
                                 [pc |-> "default", idx |-> 0, result |-> EmptyResult]]
            /\ invoked' = [invoked EXCEPT ![run] = Append(@, 0)]
    /\ UNCHANGED <<now, hitlVars, task_processors, response>>

\* ProcessorCall without the try/except: the exception leaves the for loop
ProcessorCall_Escapes(kind, i) ==
    IF kind = "returns"
    THEN [escapes |-> FALSE, result |-> [kind |-> "result", by |-> i]]
    ELSE [escapes |-> TRUE, result |-> [kind |-> "error", by |-> i]]

\* the try/except around one processor call: what result is bound to, and whether
\* the exception leaves the for loop
ProcessorCall(kind, i) ==
    IF kind = "returns"
    THEN [escapes |-> FALSE, result |-> [kind |-> "result", by |-> i]]
    ELSE [escapes |-> FALSE, result |-> [kind |-> "error", by |-> i]]

\* str(e) of the exception a processor raises
ProcessorError == "processor raised"

\* ProcessorDone with the for loop left after the first processor
ProcessorDone_FirstOnly(run) ==
    /\ run \in DOMAIN background
    /\ background[run].pc = "processor"
    /\ LET i == background[run].idx
           c == ProcessorCall(task_processors[i], i)
       IN  /\ task_queue' = [task_queue EXCEPT ![run] = MarkCompleted(@, c.result, now)]
           /\ background' = [background EXCEPT ![run] =
                                [pc |-> "done", idx |-> 0, result |-> NoResult]]
           /\ UNCHANGED invoked
    /\ UNCHANGED <<now, hitlVars, task_processors, response>>

\* the awaited processor returns or raises: the loop goes on to the next
\* processor of the (live) list, or the record is marked completed.
ProcessorDone(run) ==
    /\ run \in DOMAIN background
    /\ background[run].pc = "processor"
    /\ LET i == background[run].idx
           c == ProcessorCall(task_processors[i], i)
       IN  IF c.escapes
           THEN /\ task_queue' = [task_queue EXCEPT ![run] = MarkFailed(@, ProcessorError, now)]
                /\ background' = [background EXCEPT ![run] =
                                     [pc |-> "done", idx |-> 0, result |-> NoResult]]
                /\ UNCHANGED invoked
           ELSE IF i < Len(task_processors)
           THEN /\ background' = [background EXCEPT ![run] =
                                     [pc |-> "processor", idx |-> i + 1, result |-> c.result]]
                /\ invoked' = [invoked EXCEPT ![run] = Append(@, i + 1)]
                /\ UNCHANGED task_queue
           ELSE /\ task_queue' = [task_queue EXCEPT ![run] = MarkCompleted(@, c.result, now)]
                /\ background' = [background EXCEPT ![run] =
                                     [pc |-> "done", idx |-> 0, result |-> NoResult]]
                /\ UNCHANGED invoked
    /\ UNCHANGED <<now, hitlVars, task_processors, response>>

\* _default_processor: the dict returned for a step type
DefaultProcessorResult(step_type) ==
    [kind |-> CASE step_type = "log" -> "logged"
                [] step_type = "http_action" -> "http_action acknowledged"
                [] step_type \in {"click", "mobile_action"} -> "queued_for_execution"
                [] step_type = "extract" -> "extract acknowledged"
                [] OTHER -> "unhandled",
     by |-> 0]

\* the step types _default_processor has a branch for
HandledStepTypes == {"log", "http_action", "click", "mobile_action", "extract"}

\* str(e) of an exception out of _default_processor
DefaultError == "default processor raised"

\* the awaited _default_processor returns, or an exception leaves it and the
\* except clause of _process_task marks the record failed.  send_message catches
\* its own exceptions, so the only statement of _default_processor that can raise
\* is the json.dumps of the params in the branch for an unhandled step type (a
\* params dict that json cannot encode, such as one with tuple keys).
DefaultDone(run, outcome) ==
    /\ run \in DOMAIN background
    /\ background[run].pc = "default"
    /\ outcome = "raises" => task_queue[run].step_type \notin HandledStepTypes
    /\ task_queue' = [task_queue EXCEPT ![run] =
                         IF outcome = "returns"
                         THEN MarkCompleted(@, DefaultProcessorResult(@.step_type), now)
                         ELSE MarkFailed(@, DefaultError, now)]
    /\ background' = [background EXCEPT ![run] = [pc |-> "done", idx |-> 0, result |-> NoResult]]
    /\ UNCHANGED <<now, hitlVars, task_processors, invoked, response>>

\* str.lower() of a word of an error text (the other words are lower-case already)
Lower(word) ==
    CASE word = "Invalid" -> "invalid"
      [] word = "Unknown" -> "unknown"
      [] word = "Task" -> "task"
      [] word = "Cannot" -> "cannot"
      [] OTHER -> word

\* needle in text.lower(), for a needle that is a word
InLower(needle, text) == \E i \in DOMAIN text : Lower(text[i]) = needle

\* openclaw_webhook: the HTTP status the endpoint answers with for the
\* WebhookResponse that handle_webhook returned (202 is the route's status_code)
WebhookHttpStatus(resp) ==
    IF resp.ok THEN 202
    ELSE IF InLower("authorization", resp.error) THEN 401
    ELSE IF InLower("invalid", resp.error) /\ InLower("token", resp.error) THEN 403
    ELSE 400

\* get_task_status
GetTaskStatus(run_id) == IF run_id \in DOMAIN task_queue THEN task_queue[run_id] ELSE None

\* the values of TaskStatus
TaskStatus == ActiveStatus \cup TerminalTaskStatus

\* tasks.sort(key=created_at, reverse=True): the run ids by created_at, latest
\* first.  The sort is stable, so records with equal created_at stay in dict
\* order.
SortedRuns(queue) ==
    LET SortsBefore(a, b) ==
            \/ queue[a].created_at > queue[b].created_at
            \/ queue[a].created_at = queue[b].created_at /\ a < b
    IN  [i \in 1..Cardinality(DOMAIN queue) |->
            CHOOSE r \in DOMAIN queue :
                Cardinality({q \in DOMAIN queue : SortsBefore(q, r)}) = i - 1]

\* get_all_tasks: the first limit records of the sorted list
GetAllTasks(queue, limit) ==
    LET runs == SortedRuns(queue)
        n == IF limit < Len(runs) THEN limit ELSE Len(runs)
    IN  [i \in 1..n |-> queue[runs[i]]]

\* TaskListResponse, and the HTTPException of the route (status_code as http)
TaskListResponse(tasks) == [ok |-> TRUE, http |-> 200, tasks |-> tasks, total |-> Len(tasks)]
ListHttpException(status_code) ==
    [ok |-> FALSE, http |-> status_code, tasks |-> <<>>, total |-> 0]

\* the list_tasks route: get_all_tasks(limit) first, and the status filter on
\* what it returned.  status None is the absent (or empty) query parameter.
ListTasks(limit, status, authorization) ==
    /\ response' =
           IF ~ValidateToken(authorization) THEN ListHttpException(403)
           ELSE LET tasks == GetAllTasks(task_queue, limit)
                    HasStatus(t) == t.status = status
                IN  IF status = None THEN TaskListResponse(tasks)
                    ELSE IF status \in TaskStatus
                    THEN TaskListResponse(SelectSeq(tasks, HasStatus))
                    ELSE ListHttpException(400)
    /\ UNCHANGED <<now, hitlVars, task_queue, task_processors, background, invoked>>

\* the webhook requests a caller may send.  execute-step reads taskId and
\* stepType; query-status and cancel-task read params.extra.runId (0 when absent;
\* a stored run id or an unknown one otherwise) and, only when it is absent,
\* taskId; a request of another type is not read at all.
WebhookRequests ==
    [taskId : TaskIds, type : {"execute-step"}, stepType : StepTypes, runId : {0}]
    \cup [taskId : TaskIds, type : {"query-status", "cancel-task"}, stepType : {"log"},
          runId : {0}]
    \cup [taskId : {10}, type : {"query-status", "cancel-task"}, stepType : {"log"},
          runId : 1..(Cardinality(DOMAIN task_queue) + 1)]
    \cup [taskId : {10}, type : RequestTypes \ {"execute-step", "query-status", "cancel-task"},
          stepType : {"log"}, runId : {0}]

Init ==
    /\ now = 0
    /\ hitl_requests = <<>>
    /\ hitl_responses = <<>>
    /\ notification_callbacks = <<>>
    /\ waiter = <<>>
    /\ delivered = <<>>
    /\ accepted = <<>>
    /\ cancelled_blocked = {}
    /\ last_op = [op |-> "none", rid |-> 0, ret |-> FALSE]
    /\ task_queue = <<>>
    /\ task_processors = <<>>
    /\ background = <<>>
    /\ invoked = <<>>
    /\ response = NoWebhookResponse

\* The two services share no state but the clock, so each is explored in a
\* specification of its own: Spec is the HITL service, TaskSpec the task queue.
\* The calls that grow a table or a list without limit (request_hitl,
\* register_callback, register_processor, an accepted execute-step) are capped by
\* the bounds in the next-state relations, not in the actions.
Next ==
    \/ Tick
    \/ /\ Len(notification_callbacks) < MaxCallbacks
       /\ \E k \in CallbackKinds : RegisterCallback(k)
    \/ /\ Cardinality(DOMAIN hitl_requests) < MaxRequests
       /\ \E t \in HitlTaskIds, to \in Timeouts : RequestHitl(t, to)
    \/ \E r \in RequestIds : CallbackDone(r)
    \/ \E r \in RequestIds : Poll(r)
    \/ \E r \in RequestIds, a \in UserActions : RespondHitl(r, a, None)
    \/ \E r \in RequestIds : CancelRequest(r)

Spec == Init /\ [][Next]_vars

\* No operation of the task queue reads the clock back (created_at and updated_at
\* are only written), so TaskSpec leaves the clock alone.
TaskNext ==
    \/ /\ Len(task_processors) < MaxProcessors
       /\ \E k \in ProcessorKinds : RegisterProcessor(k)
    \/ \E request \in WebhookRequests, authorization \in AuthHeaders :
           /\ Accepted(request, authorization) => Cardinality(DOMAIN task_queue) < MaxTasks
           /\ HandleWebhook(request, authorization)
    \/ \E run \in DOMAIN background : StartTask(run)
    \/ \E run \in DOMAIN background : ProcessorDone(run)
    \/ \E run \in DOMAIN background, outcome \in {"returns", "raises"} :
           DefaultDone(run, outcome)

TaskSpec == Init /\ [][TaskNext]_vars

\* the requests of the clocked task queue: execute-step for one task id and
\* cancel-task by task id, by a stored run id or by an unknown one
TimedRequests ==
    {request \in WebhookRequests :
        request.type \in {"execute-step", "cancel-task"} /\ request.taskId = 10}

\* The task queue with the clock running, so that created_at and updated_at tell
\* the writes of a record apart.  validate_token and query-status write no
\* record and a processor that raises ends like one that returns, so the calls
\* here carry the valid header, and the registered processors return.
TimedTaskNext ==
    \/ Tick
    \/ /\ Len(task_processors) < MaxProcessors
       /\ RegisterProcessor("returns")
    \/ \E request \in TimedRequests :
           /\ Accepted(request, Header(BearerPrefix \o hook_token))
                  => Cardinality(DOMAIN task_queue) < MaxTasks
           /\ HandleWebhook(request, Header(BearerPrefix \o hook_token))
    \/ \E run \in DOMAIN background : StartTask(run)
    \/ \E run \in DOMAIN background : ProcessorDone(run)
    \/ \E run \in DOMAIN background, outcome \in {"returns", "raises"} :
           DefaultDone(run, outcome)

TimedTaskSpec == Init /\ [][TimedTaskNext]_vars

\* one request of each type, naming the first run
OneOfEachType == [taskId : {10}, type : RequestTypes, stepType : {"log"}, runId : {1}]

\* The task queue called with every kind of Authorization header: every request
\* with the valid one, and a request of each type with each of the others.  A
\* processor that raises ends like one that returns, so the registered
\* processors return.
AuthNext ==
    \/ /\ Len(task_processors) < MaxProcessors
       /\ RegisterProcessor("returns")
    \/ \E request \in WebhookRequests :
           /\ request.type = "execute-step" => Cardinality(DOMAIN task_queue) < MaxTasks
           /\ HandleWebhook(request, Header(BearerPrefix \o hook_token))
    \/ \E request \in OneOfEachType :
           \E authorization \in AllAuthHeaders \ {Header(BearerPrefix \o hook_token)} :
               HandleWebhook(request, authorization)
    \/ \E run \in DOMAIN background : StartTask(run)
    \/ \E run \in DOMAIN background : ProcessorDone(run)
    \/ \E run \in DOMAIN background, outcome \in {"returns", "raises"} :
           DefaultDone(run, outcome)

AuthSpec == Init /\ [][AuthNext]_vars

\* the requests of the submission race: log steps, and cancel-task by task id
SubmitRequests ==
    {request \in WebhookRequests :
        /\ request.type \in {"execute-step", "cancel-task"}
        /\ request.stepType = "log"
        /\ request.runId = 0}

\* The task queue under several submissions, for one task id or for two, each
\* racing with the background executions of the earlier ones.  Every call carries the valid
\* header and the registered processors return.
SubmitNext ==
    \/ /\ Len(task_processors) < MaxProcessors
       /\ RegisterProcessor("returns")
    \/ \E request \in SubmitRequests :
           /\ request.type = "execute-step"
                  => Cardinality(DOMAIN task_queue) < MaxSubmissions
           /\ HandleWebhook(request, Header(BearerPrefix \o hook_token))
    \/ \E run \in DOMAIN background : StartTask(run)
    \/ \E run \in DOMAIN background : ProcessorDone(run)
    \/ \E run \in DOMAIN background, outcome \in {"returns", "raises"} :
           DefaultDone(run, outcome)

SubmitSpec == Init /\ [][SubmitNext]_vars

\* the requests of the lookups: log steps for a task id used twice and for a task
\* id that is the run id of the first record, and query-status and cancel-task by
\* task id, by a stored run id and by an unknown one
LookupRequests ==
    [taskId : {10, 1}, type : {"execute-step"}, stepType : {"log"}, runId : {0}]
    \cup [taskId : {10, 1, 11}, type : {"query-status", "cancel-task"}, stepType : {"log"},
          runId : {0}]
    \cup [taskId : {10}, type : {"query-status", "cancel-task"}, stepType : {"log"},
          runId : 1..(Cardinality(DOMAIN task_queue) + 1)]

\* The task queue with several records that one lookup key can match.  Every call
\* carries the valid header, and no processor is registered: the lookups read
\* run_id, task_id and status only, whoever wrote the status.
LookupNext ==
    \/ \E request \in LookupRequests :
           /\ request.type = "execute-step"
                  => Cardinality(DOMAIN task_queue) < MaxSubmissions
           /\ HandleWebhook(request, Header(BearerPrefix \o hook_token))
    \/ \E run \in DOMAIN background : StartTask(run)
    \/ \E run \in DOMAIN background, outcome \in {"returns", "raises"} :
           DefaultDone(run, outcome)

LookupSpec == Init /\ [][LookupNext]_vars

\* the limit and status parameters of list_tasks: limit is at least 1 (ge=1);
\* status is absent, a value of TaskStatus, or another string
ListLimits == 1..MaxSubmissions
ListStatuses == {None, "queued", "running", "completed", "failed", "bogus"}

\* The task queue listed while records are created at different times and
\* executed.  No processor is registered, so the default processor completes
\* each log step.
ListNext ==
    \/ Tick
    \/ \E request \in {r \in SubmitRequests : r.type = "execute-step" /\ r.taskId = 10} :
           /\ Cardinality(DOMAIN task_queue) < MaxSubmissions
           /\ HandleWebhook(request, Header(BearerPrefix \o hook_token))
    \/ \E run \in DOMAIN background : StartTask(run)
    \/ \E run \in DOMAIN background, outcome \in {"returns", "raises"} :
           DefaultDone(run, outcome)
    \/ \E limit \in ListLimits, status \in ListStatuses :
           \E authorization \in {NoHeader, Header(BearerPrefix \o hook_token)} :
               ListTasks(limit, status, authorization)

ListSpec == Init /\ [][ListNext]_vars

\* WaiterLockHeld with the sleep between two polls inside the with block
WaiterLockHeld_AcrossSleep(pc) == pc = "sleep"

\* whether a request_hitl coroutine suspended at pc is inside an
\* "async with self._lock" block of HITLService
WaiterLockHeld(pc) ==
    CASE pc = "notify" -> FALSE  \* await callback(request): the block of line 118 is closed
      [] pc = "sleep" -> FALSE   \* await asyncio.sleep: after the block of line 145
      [] OTHER -> FALSE          \* the coroutine is over

\* whether a _process_task coroutine suspended at pc is inside an
\* "async with self._lock" block of OpenClawService
ExecutionLockHeld(pc) ==
    CASE pc = "processor" -> FALSE  \* await processor(...): between the blocks of lines 373 and 392
      [] pc = "default" -> FALSE    \* await self._default_processor(...)
      [] OTHER -> FALSE             \* not started yet, or over

\* the suspended coroutines that hold the lock of each service
HitlLockHolders == {r \in DOMAIN waiter : WaiterLockHeld(waiter[r].pc)}
TaskLockHolders == {run \in DOMAIN background : ExecutionLockHeld(background[run].pc)}

\* the webhook requests sent while executions are suspended: submit, status and
\* cancel for one task id
LockRequests ==
    {request \in WebhookRequests :
        /\ request.type \in {"execute-step", "query-status", "cancel-task"}
        /\ request.taskId = 10
        /\ request.stepType = "log"
        /\ request.runId = 0}

\* Both services with their locks: a step that enters an "async with self._lock"
\* block can be taken only when no suspended coroutine holds that lock (a
\* coroutine inside its own block goes on).  respond_hitl and query-status take
\* no lock.  No callback and no processor is registered (the executions await
\* the default processor), and one timeout and one answer are enough here.  The
\* task queue only writes the clock into its records, so its steps are taken
\* before the clock moves and the waiters run on beside the state they leave.
LockNext ==
    \/ Tick
    \/ /\ Cardinality(DOMAIN hitl_requests) < MaxRequests
       /\ HitlLockHolders = {}
       /\ RequestHitl("t1", 1)
    \/ \E r \in RequestIds : HitlLockHolders \subseteq {r} /\ Poll(r)
    \/ \E r \in RequestIds : RespondHitl(r, "Retry", None)
    \/ \E r \in RequestIds : HitlLockHolders = {} /\ CancelRequest(r)
    \/ \E request \in LockRequests :
           /\ now = 0
           /\ request.type = "execute-step" => Cardinality(DOMAIN task_queue) < MaxTasks
           /\ request.type # "query-status" => TaskLockHolders = {}
           /\ HandleWebhook(request, Header(BearerPrefix \o hook_token))
    \/ \E run \in DOMAIN background : now = 0 /\ TaskLockHolders = {} /\ StartTask(run)
    \/ \E run \in DOMAIN background, outcome \in {"returns", "raises"} :
           now = 0 /\ TaskLockHolders \subseteq {run} /\ DefaultDone(run, outcome)

LockSpec == Init /\ [][LockNext]_vars

\* the requests of the task queue watched to the end: steps of both types for one
\* task id, and cancel-task by that task id
TaskLiveRequests ==
    {request \in WebhookRequests :
        /\ request.type \in {"execute-step", "cancel-task"}
        /\ request.taskId = 10
        /\ request.runId = 0}

\* The task queue watched to the end of every background execution: the event
\* loop runs a task it was handed with create_task, and an awaited processor
\* comes back (it returns or it raises).
TaskLiveNext ==
    \/ /\ Len(task_processors) < MaxProcessors
       /\ \E k \in ProcessorKinds : RegisterProcessor(k)
    \/ \E request \in TaskLiveRequests :
           /\ request.type = "execute-step" => Cardinality(DOMAIN task_queue) < MaxTasks
           /\ HandleWebhook(request, Header(BearerPrefix \o hook_token))
    \/ \E run \in DOMAIN background : StartTask(run)
    \/ \E run \in DOMAIN background : ProcessorDone(run)
    \/ \E run \in DOMAIN background, outcome \in {"returns", "raises"} :
           DefaultDone(run, outcome)

TaskLiveSpec ==
    /\ Init
    /\ [][TaskLiveNext]_vars
    /\ \A run \in 1..MaxTasks :
           /\ WF_vars(StartTask(run))
           /\ WF_vars(ProcessorDone(run))
           /\ WF_vars(\E outcome \in {"returns", "raises"} : DefaultDone(run, outcome))

\* the task ids of the requests of PendingSpec
PendingTaskIds == {"t1", "t2"}

\* The HITL service with several requests outstanding for two tasks.  The
\* callbacks act before a request can be answered and the option the user picks
\* is not read by the service, so no callback is registered, one option is
\* enough, and every request is given one second.
PendingNext ==
    \/ Tick
    \/ /\ Cardinality(DOMAIN hitl_requests) < MaxPending
       /\ \E t \in PendingTaskIds : RequestHitl(t, 1)
    \/ \E r \in RequestIds : Poll(r)
    \/ \E r \in RequestIds : RespondHitl(r, "Retry", None)
    \/ \E r \in RequestIds : CancelRequest(r)

PendingSpec == Init /\ [][PendingNext]_vars

\* The HITL service with several requests outstanding for one task, each given
\* two seconds, so that a waiter can find its answer at its first wake-up.  No
\* callback is registered and one option is enough.
ConcurrentNext ==
    \/ Tick
    \/ /\ Cardinality(DOMAIN hitl_requests) < MaxPending
       /\ RequestHitl("t1", 2)
    \/ \E r \in RequestIds : Poll(r)
    \/ \E r \in RequestIds : RespondHitl(r, "Retry", None)
    \/ \E r \in RequestIds : CancelRequest(r)

ConcurrentSpec == Init /\ [][ConcurrentNext]_vars

\* The HITL service with several notification callbacks, registered before,
\* while and after a request is announced.  The option the user picks is not
\* read by the service, so one is enough.
NotifyNext ==
    \/ Tick
    \/ /\ Len(notification_callbacks) < MaxNotifiers
       /\ \E k \in CallbackKinds : RegisterCallback(k)
    \/ /\ Cardinality(DOMAIN hitl_requests) < MaxRequests
       /\ \E t \in HitlTaskIds, to \in Timeouts : RequestHitl(t, to)
    \/ \E r \in RequestIds : CallbackDone(r)
    \/ \E r \in RequestIds : Poll(r)
    \/ \E r \in RequestIds : RespondHitl(r, "Retry", None)
    \/ \E r \in RequestIds : CancelRequest(r)

NotifySpec == Init /\ [][NotifyNext]_vars

\* The HITL service watched to the end of every request_hitl call: time passes,
\* an awaited callback comes back, and the event loop resumes a coroutine whose
\* sleep is over.  What a callback does and which option the user picks have no
\* part in when a call ends, so one kind of each is enough here.
LiveNext ==
    \/ TickLive
    \/ /\ Len(notification_callbacks) < MaxCallbacks
       /\ \E k \in {"ok"} : RegisterCallback(k)
    \/ /\ Cardinality(DOMAIN hitl_requests) < MaxRequests
       /\ \E t \in HitlTaskIds, to \in Timeouts : RequestHitl(t, to)
    \/ \E r \in RequestIds : CallbackDone(r)
    \/ \E r \in RequestIds : Poll(r)
    \/ \E r \in RequestIds, a \in {"Retry"} : RespondHitl(r, a, None)
    \/ \E r \in RequestIds : CancelRequest(r)

LiveSpec ==
    /\ Init
    /\ [][LiveNext]_vars
    /\ WF_vars(TickLive)
    /\ \A r \in 1..MaxRequests : WF_vars(CallbackDone(r)) /\ WF_vars(Poll(r))

\* ------------------------------------------------------------ HITL claims

TerminalRequestStatus == {"resolved", "expired", "cancelled"}
Finished(r) == waiter[r].pc \in {"returned", "raised"}

\* C1: for every request, exactly one of respond_hitl and the timeout path wins:
\* it never happens that a respond_hitl call for the request returned True and the
\* request_hitl waiter of the same request raised HITLTimeoutError.
C1_RespondOrTimeoutWins ==
    \A r \in DOMAIN waiter :
        ~(accepted[r] # NoResponse /\ waiter[r].pc = "raised")

\* C2: once a respond_hitl call for a request has returned True, every further
\* respond_hitl call for it returns False and changes neither the stored response
\* nor the stored status, and a user response handed to the waiter is the first
\* accepted one.
C2_SecondRespondRejected ==
    /\ [](\A r \in DOMAIN delivered :
            (delivered[r] # <<>> /\ delivered[r][1].action \in UserActions)
                => delivered[r][1] = accepted[r])
    /\ [][\A r \in DOMAIN accepted, a \in UserActions :
            (accepted[r] # NoResponse /\ RespondHitl(r, a, None))
                => /\ last_op'.ret = FALSE
                   /\ hitl_responses' = hitl_responses
                   /\ hitl_requests' = hitl_requests]_vars

\* C3: a stored status of resolved, expired or cancelled is never changed by a
\* later operation.
C3_TerminalStatusFinal ==
    [][\A r \in DOMAIN hitl_requests :
        hitl_requests[r].status \in TerminalRequestStatus
            => hitl_requests'[r].status = hitl_requests[r].status]_vars

\* C6: the request_hitl waiter is handed exactly one outcome, a response or the
\* timeout error, at the moment it finishes and nothing before; once it has
\* finished the stored status is one of resolved, expired, cancelled.
C6_ExactlyOneOutcome ==
    \A r \in DOMAIN waiter :
        /\ ~Finished(r) => delivered[r] = <<>>
        /\ Finished(r) =>
              /\ Len(delivered[r]) = 1
              /\ (waiter[r].pc = "raised") = (delivered[r][1] = TimeoutOutcome)
              /\ hitl_requests[r].status \in TerminalRequestStatus

\* C6 witness: respond_hitl was accepted for a request, the deadline raced with
\* it, and the waiter has finished.
C6_Witness ==
    \E r \in DOMAIN waiter :
        /\ accepted[r] # NoResponse
        /\ waiter[r].pc = "returned"
        /\ delivered[r] = <<accepted[r]>>
        /\ now >= 1

\* C7: a request cancelled while pending, before its deadline, with its waiter
\* blocked: the waiter returns the synthesized Abort response and never raises
\* the timeout error.
C7_CancelUnblocksWithAbort ==
    \A r \in cancelled_blocked :
        /\ waiter[r].pc # "raised"
        /\ waiter[r].pc = "returned" => delivered[r] = <<AbortResponse>>

\* C8: cancel_request returns True exactly for a request that is still pending;
\* otherwise it returns False and changes neither table.
C8_CancelOnlyPending ==
    [][\A r \in RequestIds :
        CancelRequest(r) =>
            IF r \in DOMAIN hitl_requests /\ hitl_requests[r].status = "pending"
            THEN last_op'.ret = TRUE
            ELSE /\ last_op'.ret = FALSE
                 /\ hitl_requests' = hitl_requests
                 /\ hitl_responses' = hitl_responses]_vars

\* C10: in every reachable state, a request for which respond_hitl has returned
\* True is not reported as pending (by its stored status or by
\* get_pending_requests).
C10_AcceptedNotPending ==
    \A r \in DOMAIN hitl_requests :
        accepted[r] # NoResponse
            => /\ hitl_requests[r].status # "pending"
               /\ \A i \in DOMAIN GetPendingRequests(None) :
                      GetPendingRequests(None)[i].request_id # r

\* a respond_hitl or cancel_request call has acted on the request: the response it
\* stored is still in the table, or the waiter has taken it
Touched(r) ==
    r \in DOMAIN hitl_responses \/ (r \in DOMAIN waiter /\ waiter[r].pc = "returned")

\* the request_hitl call of the request has raised HITLTimeoutError
Raised(r) == r \in DOMAIN waiter /\ waiter[r].pc = "raised"

\* C11: a request for which no respond_hitl and no cancel_request call ever acts:
\* its request_hitl call eventually raises HITLTimeoutError, and once it has,
\* get_request reports the status expired.
C11_TimeoutEventually ==
    \A r \in 1..MaxRequests :
        /\ [](r \in DOMAIN waiter => <>(Touched(r) \/ Raised(r)))
        /\ []((Raised(r) /\ ~Touched(r)) => GetRequest(r).status = "expired")

\* C11 witness: a request_hitl call that slept through its timeout and raised,
\* with no response ever stored for it.
C11_Witness ==
    \E r \in DOMAIN waiter :
        /\ Raised(r)
        /\ ~Touched(r)
        /\ delivered[r] = <<TimeoutOutcome>>
        /\ GetRequest(r).status = "expired"
        /\ now >= 2

\* C12: respond_hitl for an unknown request id, or for a request whose stored
\* status is resolved, expired or cancelled, returns False and leaves the request
\* table and the response table as they were.
C12_RespondNoOp ==
    [][\A r \in RequestIds, a \in UserActions :
        ( /\ \/ r \notin DOMAIN hitl_requests
             \/ hitl_requests[r].status \in TerminalRequestStatus
          /\ RespondHitl(r, a, None) )
        => /\ last_op'.ret = FALSE
           /\ hitl_requests' = hitl_requests
           /\ hitl_responses' = hitl_responses]_vars

\* C12 witness: respond_hitl has just been refused for a stored request that is
\* cancelled and whose Abort response is still in the response table.
C12_Witness ==
    /\ last_op.op = "respond_hitl"
    /\ last_op.ret = FALSE
    /\ last_op.rid \in DOMAIN hitl_requests
    /\ hitl_requests[last_op.rid].status = "cancelled"
    /\ last_op.rid \in DOMAIN hitl_responses
    /\ hitl_responses[last_op.rid] = AbortResponse

\* the members of a list
Range(seq) == {seq[i] : i \in DOMAIN seq}

\* C19: get_pending_requests(task_id=X) returns, each once, exactly the stored
\* requests whose status is pending and whose task_id is X, and
\* get_pending_requests() exactly the stored requests whose status is pending.
C19_PendingFilter ==
    /\ \A X \in PendingTaskIds :
           LET want == {r \in DOMAIN hitl_requests :
                           hitl_requests[r].status = "pending"
                               /\ hitl_requests[r].task_id = X}
           IN  /\ Range(GetPendingRequests(X)) = {hitl_requests[r] : r \in want}
               /\ Len(GetPendingRequests(X)) = Cardinality(want)
    /\ LET want == {r \in DOMAIN hitl_requests : hitl_requests[r].status = "pending"}
       IN  /\ Range(GetPendingRequests(None)) = {hitl_requests[r] : r \in want}
           /\ Len(GetPendingRequests(None)) = Cardinality(want)

\* C19 witness: two requests are pending, one for each task, so that the filter
\* has something to leave out.
C19_Witness ==
    /\ Len(GetPendingRequests(None)) = 2
    /\ Len(GetPendingRequests("t1")) = 1
    /\ Len(GetPendingRequests("t2")) = 1
    /\ now >= 1

\* request_hitl is past its callbacks and inside _wait_for_response, or through it
InWait(w) == w.pc \in {"sleep", "returned", "raised"}

\* C20: a request_hitl call stores its request as pending and only then invokes
\* the first registered callback; each time the awaited callback comes back,
\* whether it returned or raised, the call invokes the next one in registration
\* order, none twice and none skipped, and after the last one it enters the wait
\* for its response or timeout; no callback's exception ends the call.
C20_NotifiersInOrder ==
    /\ [](\A r \in DOMAIN waiter :
            /\ waiter[r].pc # "aborted"
            /\ waiter[r].pc = "notify"
                   => /\ waiter[r].idx \in 1..Len(notification_callbacks)
                      /\ r \in DOMAIN hitl_requests)
    /\ [][\A r \in DOMAIN waiter' \ DOMAIN waiter :
             /\ r \in DOMAIN hitl_requests'
             /\ hitl_requests'[r].status = "pending"
             /\ IF notification_callbacks = <<>>
                THEN InWait(waiter'[r])
                ELSE waiter'[r].pc = "notify" /\ waiter'[r].idx = 1]_vars
    /\ [][\A r \in DOMAIN waiter :
             (waiter[r].pc = "notify" /\ CallbackDone(r))
             => IF waiter[r].idx < Len(notification_callbacks)
                THEN waiter'[r].pc = "notify" /\ waiter'[r].idx = waiter[r].idx + 1
                ELSE InWait(waiter'[r])]_vars

\* C20 witness: the first callback raised and the call is awaiting the second,
\* with its request still pending.
C20_Witness ==
    \E r \in DOMAIN waiter :
        /\ waiter[r].pc = "notify"
        /\ waiter[r].idx = 2
        /\ notification_callbacks[1] = "raises"
        /\ hitl_requests[r].status = "pending"
\* what the service holds for request B: its record, its pending response if
\* any, and its waiter
Held(reqs, resps, waiters, B) ==
    <<reqs[B], IF B \in DOMAIN resps THEN <<resps[B]>> ELSE <<>>, waiters[B]>>

\* C28: requests with different ids do not touch each other: respond_hitl,
\* cancel_request and a poll (a wake-up that goes back to sleep, returns or
\* times out) for request A leave the record, the status, the pending response
\* and the waiter of every other request B as they were; and a waiter of B whose
\* sleep is over can poll, and returns when a response is waiting for it before
\* its deadline, whatever state A's waiter is in.
C28_RequestsIndependent ==
    /\ [](\A B \in DOMAIN waiter :
            (waiter[B].pc = "sleep" /\ now >= waiter[B].wake_at) => ENABLED Poll(B))
    /\ [][\A B \in DOMAIN hitl_requests :
             /\ \/ Held(hitl_requests', hitl_responses', waiter', B)
                       = Held(hitl_requests, hitl_responses, waiter, B)
                \/ \A A \in DOMAIN hitl_requests \ {B} :
                      ~(\/ RespondHitl(A, "Retry", None)
                        \/ CancelRequest(A)
                        \/ Poll(A))
             /\ (/\ B \in DOMAIN hitl_responses
                 /\ now < waiter[B].deadline
                 /\ Poll(B))
                    => /\ waiter'[B].pc = "returned"
                       /\ hitl_requests'[B].status = "resolved"]_vars

\* C28 witness: the second request has been answered and its waiter has returned
\* while the waiter of the first still sleeps, its request pending.
C28_Witness ==
    /\ DOMAIN waiter = {1, 2}
    /\ waiter[1].pc = "sleep"
    /\ hitl_requests[1].status = "pending"
    /\ 1 \notin DOMAIN hitl_responses
    /\ waiter[2].pc = "returned"
    /\ hitl_requests[2].status = "resolved"

\* C30: once a request_hitl call is over (it returned a response or raised the
\* timeout error), _hitl_responses holds no entry for its request, whatever
\* respond_hitl and cancel_request calls came before or come after.
C30_NoResponseLeftBehind ==
    \A r \in DOMAIN waiter :
        waiter[r].pc \in {"returned", "raised"} => r \notin DOMAIN hitl_responses

\* ------------------------------------------------------- task queue claims

StatusRank(status) ==
    CASE status = "pending" -> 0
      [] status = "queued" -> 1
      [] status = "running" -> 2
      [] OTHER -> 3

ValidHeader == Header(BearerPrefix \o hook_token)

\* the registered processors a run has called (the default processor is 0)
RanRegistered(run) == invoked[run] # <<>> /\ invoked[run][1] # 0

\* C4: the stored status of a run never moves backwards along queued, running,
\* {completed, failed, cancelled}, and a completed, failed or cancelled status is
\* never followed by a different one.
C4_StatusMonotone ==
    [][\A run \in DOMAIN task_queue :
        /\ StatusRank(task_queue'[run].status) >= StatusRank(task_queue[run].status)
        /\ task_queue[run].status \in TerminalTaskStatus
               => task_queue'[run].status = task_queue[run].status]_vars

\* C5: the earlier of cancel and completion sticks: a record cancelled while its
\* processor was running stays cancelled with result and error unset when the
\* processor returns or raises, and a cancel-task for a record already completed or
\* failed is refused and changes nothing.
C5_EarlierMutationSticks ==
    [][\A run \in DOMAIN task_queue :
        /\ (task_queue[run].status = "cancelled"
                /\ background[run].pc \in {"processor", "default"})
               => /\ task_queue'[run].status = "cancelled"
                  /\ task_queue'[run].result = NoResult
                  /\ task_queue'[run].error = None
        /\ \A request \in WebhookRequests :
               ( /\ request.type = "cancel-task"
                 /\ FindTask(task_queue, LookupKey(request)) = run
                 /\ task_queue[run].status \in {"completed", "failed"}
                 /\ HandleWebhook(request, ValidHeader) )
               => /\ response'.ok = FALSE
                  /\ task_queue' = task_queue]_vars

C13_CancelTerminalRefused ==
    [][\A request \in WebhookRequests :
        (request.type = "cancel-task" /\ HandleWebhook(request, ValidHeader))
        => LET found == FindTask(task_queue, LookupKey(request))
           IN  /\ (found # 0 /\ task_queue[found].status \in TerminalTaskStatus)
                    => /\ response'.ok = FALSE
                       /\ response'.error # <<>>
                       /\ response'.error[Len(response'.error)] = task_queue[found].status
                       /\ task_queue' = task_queue
               /\ response'.ok = TRUE
                    => (found # 0 /\ task_queue[found].status \in ActiveStatus)]_vars

\* C13 witness: a completed record, written before the clock last moved, for
\* which a cancel-task has just been refused with its status named.
C13_Witness ==
    \E run \in DOMAIN task_queue :
        /\ task_queue[run].status = "completed"
        /\ task_queue[run].updated_at < now
        /\ response.ok = FALSE
        /\ response.runId = run
        /\ response.error = <<"Cannot", "cancel", "task", "in", "status:", "completed">>

\* C14: handle_webhook called with no Authorization header, or with one that is
\* not "Bearer " followed by the hook token, answers ok=false with no runId
\* whatever the request type, and leaves the task table and the background
\* executions as they were: every step either has that outcome or is no such call.
C14_AuthGate ==
    [][\/ /\ response'.ok = FALSE
          /\ response'.runId = 0
          /\ task_queue' = task_queue
          /\ background' = background
       \/ \A authorization \in AllAuthHeaders \ {ValidHeader} :
              \A request \in OneOfEachType : ~HandleWebhook(request, authorization)]_vars

\* C14 witness: a call has just been turned away for its header while a record
\* was running.
C14_Witness ==
    /\ response.error = <<"Invalid", "or", "missing", "authorization", "token">>
    /\ \E run \in DOMAIN task_queue :
           task_queue[run].status = "running" /\ background[run].pc # "done"

\* the execute-step requests
ExecuteRequests == {request \in WebhookRequests : request.type = "execute-step"}

\* C15: an accepted execute-step adds exactly one record, in status queued, under
\* a run id that was not in the table, answers with that run id and status queued
\* while the background execution has not started, and leaves every other record
\* as it was; no other step adds or removes a record, so the records are as many
\* as the accepted submissions; every record is stored under its own run id.
C15_OneRecordPerSubmission ==
    /\ [](\A run \in DOMAIN task_queue : task_queue[run].run_id = run)
    /\ [][IF \E request \in ExecuteRequests : HandleWebhook(request, ValidHeader)
          THEN LET new == DOMAIN task_queue' \ DOMAIN task_queue
               IN  /\ Cardinality(new) = 1
                   /\ Cardinality(DOMAIN task_queue') = Cardinality(DOMAIN task_queue) + 1
                   /\ \A run \in new :
                          /\ task_queue'[run].status = "queued"
                          /\ background'[run].pc = "scheduled"
                          /\ response'.ok = TRUE
                          /\ response'.runId = run
                          /\ response'.status = "queued"
                   /\ \A run \in DOMAIN task_queue :
                          /\ task_queue'[run] = task_queue[run]
                          /\ background'[run] = background[run]
          ELSE DOMAIN task_queue' = DOMAIN task_queue]_vars

\* C15 witness: a second submission for the same task id was accepted while the
\* first was being processed, and both records are in the table.
C15_Witness ==
    /\ Cardinality(DOMAIN task_queue) = 2
    /\ task_queue[1].task_id = task_queue[2].task_id
    /\ task_queue[1].status = "running"
    /\ task_queue[2].status = "queued"
    /\ response.runId = 2

\* the stored status of a run; None for a run that is not in the table
StatusOf(run) == IF run \in DOMAIN task_queue THEN task_queue[run].status ELSE None

\* C16: every accepted execute-step eventually reaches completed unless an
\* exception left its processing, which only the default processor on a step type
\* it has no branch for can cause (so never for a log step, and never when the
\* processors return); and a status of completed is never changed again.
C16_EventuallyCompleted ==
    /\ \A run \in 1..MaxTasks :
           /\ [](run \in DOMAIN task_queue
                    => <>(StatusOf(run) \in {"completed", "failed"}))
           /\ [](StatusOf(run) = "failed"
                    => /\ invoked[run] = <<0>>
                       /\ task_queue[run].step_type \notin HandledStepTypes)
    /\ [][\A run \in DOMAIN task_queue :
             task_queue[run].status = "completed"
                 => task_queue'[run].status = "completed"]_vars

\* C16 witness: a log step that the default processor handled is completed.
C16_Witness ==
    \E run \in DOMAIN task_queue :
        /\ task_queue[run].status = "completed"
        /\ task_queue[run].step_type = "log"
        /\ invoked[run] = <<0>>
        /\ task_queue[run].result = DefaultProcessorResult("log")
        /\ background[run].pc = "done"

\* C17: a call with the valid header whose type is none of execute-step,
\* query-status and cancel-task answers ok=false with an error that ends in the
\* type it was given, and leaves the task table and the background executions as
\* they were.
C17_UnknownTypeRejected ==
    [][\A request \in WebhookRequests :
        ( /\ request.type \notin {"execute-step", "query-status", "cancel-task"}
          /\ HandleWebhook(request, ValidHeader) )
        => /\ response'.ok = FALSE
           /\ response'.error # <<>>
           /\ response'.error[Len(response'.error)] = request.type
           /\ task_queue' = task_queue
           /\ background' = background
           /\ invoked' = invoked]_vars

\* C17 witness: a request of an unknown type, naming the task id of a running
\* record, has just been rejected.
C17_Witness ==
    /\ response = WebhookResponse(FALSE, 0, None, None,
                                  <<"Unknown", "request", "type:", "restart-task">>)
    /\ \E run \in DOMAIN task_queue :
           task_queue[run].status = "running" /\ task_queue[run].task_id = 10

\* a header that has the Bearer prefix
HasBearerPrefix(authorization) ==
    authorization.present /\ StartsWith(authorization.text, BearerPrefix)

\* C18: the webhook endpoint answers 401 to a call with no Authorization header
\* or with one that lacks the Bearer prefix, and 403 to a call whose header has
\* the Bearer prefix and carries a wrong token.
C18_AuthStatusCodes ==
    [][\A authorization \in AllAuthHeaders \ {ValidHeader} :
         \A request \in OneOfEachType :
            HandleWebhook(request, authorization)
            => WebhookHttpStatus(response') =
                   IF HasBearerPrefix(authorization) THEN 403 ELSE 401]_vars

\* C21: validate_token answers true for "Bearer " followed by the hook token and
\* for no other header (none, the empty string, a header without the prefix, a
\* Bearer header with another token), and handle_webhook called with that header
\* never answers with the token error.
C21_ValidateTokenExact ==
    /\ [](\A h \in AllAuthHeaders :
            ValidateToken(h) = (h.present /\ h.text = BearerPrefix \o hook_token))
    /\ [][\/ response'.error # <<"Invalid", "or", "missing", "authorization", "token">>
          \/ \A request \in OneOfEachType :
                ~HandleWebhook(request, Header(BearerPrefix \o hook_token))]_vars

\* C21 witness: an execute-step was let through, and a later call has been turned
\* away for its header.
C21_Witness ==
    /\ task_queue # <<>>
    /\ response.ok = FALSE
    /\ response.error = <<"Invalid", "or", "missing", "authorization", "token">>

\* the records a lookup key names, by run_id or by task_id
Matching(key) ==
    {r \in DOMAIN task_queue : task_queue[r].run_id = key \/ task_queue[r].task_id = key}

\* C22: query-status and cancel-task act on the earliest created record whose
\* run_id or task_id is the lookup key (extra.runId when present, else taskId):
\* the response names that record, query-status reports its status and writes
\* nothing, cancel-task cancels it when it is active and refuses otherwise, every
\* other record is left as it was; with no matching record the answer is
\* ok=false 'Task not found' and nothing is written.
C22_FirstMatchOnly ==
    [][\A request \in LookupRequests :
          (/\ request.type \in {"query-status", "cancel-task"}
           /\ HandleWebhook(request, Header(BearerPrefix \o hook_token)))
          => LET key == IF request.runId # 0 THEN request.runId ELSE request.taskId
                 m == Matching(key)
             IN  IF m = {}
                 THEN /\ response'.ok = FALSE
                      /\ response'.error = <<"Task", "not", "found:">>
                      /\ task_queue' = task_queue
                 ELSE LET first == CHOOSE r \in m : \A q \in m : r <= q
                      IN  /\ response'.runId = task_queue[first].run_id
                          /\ \A r \in DOMAIN task_queue \ {first} :
                                 task_queue'[r] = task_queue[r]
                          /\ request.type = "query-status"
                                 => /\ response'.ok
                                    /\ response'.status = task_queue[first].status
                                    /\ task_queue' = task_queue
                          /\ request.type = "cancel-task"
                                 => IF task_queue[first].status \in ActiveStatus
                                    THEN /\ response'.ok
                                         /\ response'.status = "cancelled"
                                         /\ task_queue'[first].status = "cancelled"
                                    ELSE /\ ~response'.ok
                                         /\ response'.error[Len(response'.error)]
                                                = task_queue[first].status
                                         /\ task_queue' = task_queue]_vars

\* C22 witness: two records carry the same task id, and a cancel-task by that
\* task id, sent after the second was created, has cancelled the first and left
\* the second active.
C22_Witness ==
    /\ 2 \in DOMAIN task_queue
    /\ task_queue[1].task_id = task_queue[2].task_id
    /\ task_queue[1].status = "cancelled"
    /\ task_queue[2].status \in ActiveStatus
    /\ response.ok
    /\ response.runId = 1
    /\ response.message = "Task cancelled"

\* the records with status S, and the lesser of two numbers
WithStatus(S) == {r \in DOMAIN task_queue : task_queue[r].status = S}
Min(a, b) == IF a < b THEN a ELSE b

\* C23: list_tasks returns the latest created tasks first and at most limit of
\* them; with a valid status S it returns min(limit, number of tasks with status
\* S) tasks, all of status S, latest first, and no task of status S left out is
\* later than one returned.
C23_ListFiltersThenLimits ==
    [][\A limit \in ListLimits : \A S \in ListStatuses \cap (TaskStatus \cup {None}) :
          ListTasks(limit, S, Header(BearerPrefix \o hook_token))
          => LET tasks == response'.tasks
                 among == IF S = None THEN DOMAIN task_queue ELSE WithStatus(S)
             IN  /\ response'.ok
                 /\ Len(tasks) = Min(limit, Cardinality(among))
                 /\ \A i \in DOMAIN tasks :
                        /\ tasks[i] = task_queue[tasks[i].run_id]
                        /\ tasks[i].run_id \in among
                        /\ \A j \in DOMAIN tasks :
                               i < j => /\ tasks[i].created_at >= tasks[j].created_at
                                        /\ tasks[i].run_id # tasks[j].run_id
                        /\ \A r \in among :
                               (\A j \in DOMAIN tasks : tasks[j].run_id # r)
                                   => task_queue[r].created_at <= tasks[i].created_at]_vars

\* C24: a background execution that finds processors registered calls each of
\* them once, one after the other in registration order, and stores what the last
\* one gave (its dict, or the error dict when it raised); it calls the default
\* processor exactly when it finds no processor registered, and then nothing
\* else.
C24_AllProcessorsInOrder ==
    /\ [](\A run \in DOMAIN invoked :
            LET calls == invoked[run]
            IN  \/ calls = <<>>
                \/ calls = <<0>>
                \/ /\ Len(calls) <= Len(task_processors)
                   /\ \A i \in DOMAIN calls : calls[i] = i)
    /\ [][\A run \in DOMAIN background :
             /\ StartTask(run)
                    => invoked'[run] = IF task_processors = <<>> THEN <<0>> ELSE <<1>>
             /\ (background[run].pc = "processor" /\ background'[run].pc = "done")
                    => LET k == Len(task_processors)
                       IN  /\ Len(invoked[run]) = k
                           /\ task_queue'[run].result.by = k
                           /\ task_queue'[run].result.kind =
                                  IF task_processors[k] = "returns" THEN "result" ELSE "error"]_vars

\* C24 witness: an execution has called both registered processors, first the
\* first, and its record holds what the second returned.
C24_Witness ==
    \E run \in DOMAIN background :
        /\ Len(task_processors) = 2
        /\ background[run].pc = "done"
        /\ invoked[run] = <<1, 2>>
        /\ task_queue[run].status = "completed"
        /\ task_queue[run].result = [kind |-> "result", by |-> 2]

\* C25: a task cancelled while it is still queued, its background execution not
\* yet started, never becomes running, and no processor, registered or default,
\* is ever called for it.
C25_CancelledQueuedNeverRuns ==
    [][\A run \in DOMAIN background :
          (task_queue[run].status = "cancelled" /\ background[run].pc = "scheduled")
          => /\ task_queue'[run].status # "running"
             /\ invoked'[run] = <<>>]_vars

\* C26: every accepted execute-step creates one record and one background
\* execution for its run id, and nothing else does; an execution starts once (a
\* started one is never started again, so its processor is called once), and
\* every record has its execution, whatever submissions, status queries and
\* cancels come in between.
C26_OneExecutionPerRun ==
    /\ [](/\ DOMAIN background = DOMAIN task_queue
          /\ DOMAIN invoked = DOMAIN task_queue
          /\ \A run \in DOMAIN background :
                 /\ Len(invoked[run]) <= 1
                 /\ background[run].pc = "scheduled" <=> invoked[run] = <<>>)
    /\ [][/\ \A run \in DOMAIN background :
                background[run].pc # "scheduled"
                => /\ background'[run].pc # "scheduled"
                   /\ invoked'[run] = invoked[run]
          /\ \A request \in LookupRequests :
                HandleWebhook(request, Header(BearerPrefix \o hook_token))
                => IF request.type = "execute-step"
                   THEN /\ Cardinality(DOMAIN background') = Cardinality(DOMAIN background) + 1
                        /\ response'.runId \in DOMAIN background' \ DOMAIN background
                        /\ background'[response'.runId].pc = "scheduled"
                        /\ \A run \in DOMAIN background : background'[run] = background[run]
                   ELSE background' = background]_vars

\* C26 witness: two submissions, the first asked about after
\* its execution ended, and each of the two executions has called the default
\* processor once and is over.
C26_Witness ==
    /\ DOMAIN background = {1, 2}
    /\ \A run \in {1, 2} : background[run].pc = "done" /\ invoked[run] = <<0>>
    /\ response.ok
    /\ response.runId = 1
    /\ response.status = "completed"

C29_ResultXorError ==
    \A run \in DOMAIN task_queue :
        /\ task_queue[run].result # NoResult => task_queue[run].status = "completed"
        /\ task_queue[run].error # None => task_queue[run].status = "failed"
        /\ ~(task_queue[run].result # NoResult /\ task_queue[run].error # None)

\* C29 witness: an execution has completed its record and stored the result, and
\* a cancel-task for it has been refused since.
C29_Witness ==
    \E run \in DOMAIN task_queue :
        /\ task_queue[run].status = "completed"
        /\ task_queue[run].result # NoResult
        /\ task_queue[run].error = None
        /\ ~response.ok
        /\ response.error = <<"Cannot", "cancel", "task", "in", "status:", "completed">>
====
